---- MODULE Spec2Model ----
(***************************************************************************)
(* Model of packages/vite-plugin-checker/src/logger.ts: the normalizers of *)
(* type-checker, language-server and linter diagnostics, the level filter, *)
(* the terminal and runtime projections and the cross-thread console log.  *)
(*                                                                         *)
(* JavaScript values are modelled as follows.                              *)
(*   - an optional value is a sequence of length <= 1: None is undefined   *)
(*     (or null), Some(v) is the value v;                                  *)
(*   - a string is a sequence of tokens (TLA+ strings), so that            *)
(*     concatenation is \o, the empty string is <<>> and an ANSI colour    *)
(*     escape is the token ESC.                                            *)
(***************************************************************************)
EXTENDS Integers, Sequences, FiniteSets, TLC

VARIABLES
    pc,           \* the step the pipeline under check has reached
    raw,          \* the upstream input handed to a normalizer or a conversion
    diagnostics,  \* the canonical diagnostics (NormalizedDiagnostic[])
    level,        \* the allowed-level array handed to filterLogLevel
    output,       \* what the last operation returned
    isVitest,     \* process.env.VITEST is set
    calls,        \* per thread: the texts handed to consoleLog, in call order
    port,         \* per thread: messages posted on parentPort, not yet received
    posted,       \* per thread: every message posted on parentPort, in order
    console       \* the console: <<writing thread, text>> in write order

vars == <<pc, raw, diagnostics, level, output, isVitest, calls, port, posted, console>>

(***************************************************************************)
(* Bounds of the model.                                                    *)
(***************************************************************************)
MaxDiags == 2    \* diagnostics, or lint messages, in one sequence
MaxPos == 3      \* largest offset into the type-checked file
MaxCoord == 1    \* largest 0-based line or character of a range
NWorkers == 2    \* worker threads beside the main thread
MaxCalls == 3    \* consoleLog calls in one run

(***************************************************************************)
(* Optional values and strings.                                            *)
(***************************************************************************)
None == <<>>
Some(v) == <<v>>
IsSome(o) == o # <<>>
Val(o) == o[1]

ESC == "ESC"
EOL == "EOL"
LF == "LF"

\* The sequences over S of length at most n.
SeqUpTo(S, n) == UNION {[1..k -> S] : k \in 0..n}

(***************************************************************************)
(* DiagnosticLevel (types.ts): the ordinals of the four levels.            *)
(***************************************************************************)
Warning == 0
Error == 1
Suggestion == 2
Message == 3

Levels == {Warning, Error, Suggestion, Message}

defaultLogLevel == <<Warning, Error, Suggestion, Message>>

\* Array.prototype.includes
Includes(arr, x) == \E i \in DOMAIN arr : arr[i] = x

\* A NormalizedDiagnostic.
Diag(message, conclusion, stack, id, checker, codeFrame, stripedCodeFrame, loc, lvl) ==
    [message |-> message, conclusion |-> conclusion, stack |-> stack, id |-> id,
     checker |-> checker, codeFrame |-> codeFrame,
     stripedCodeFrame |-> stripedCodeFrame, loc |-> loc, level |-> lvl]

(***************************************************************************)
(* filterLogLevel                                                          *)
(***************************************************************************)
\* typeof d.level === 'number' && level.includes(d.level)
KeepInArray(d, lvls) == IsSome(d.level) /\ Includes(lvls, Val(d.level))

\* the array branch with the single branch's truthiness test on d.level
filterLogLevelArray_truthy(ds, lvls) ==
    SelectSeq(ds, LAMBDA d : IsSome(d.level) /\ Val(d.level) # 0
                             /\ Includes(lvls, Val(d.level)))

\* Array.isArray(diagnostics): diagnostics.filter(...)
filterLogLevelArray(ds, lvls) == SelectSeq(ds, LAMBDA d : KeepInArray(d, lvls))

\* the single branch: !diagnostics.level is true of undefined and of 0
filterLogLevelSingle(d, lvls) ==
    IF ~IsSome(d.level) \/ Val(d.level) = 0 THEN None
    ELSE IF Includes(lvls, Val(d.level)) THEN Some(d) ELSE None

(***************************************************************************)
(* Strings                                                                 *)
(***************************************************************************)
\* String(v) of an optional string: undefined prints as "undefined"
Str(o) == IF IsSome(o) THEN Val(o) ELSE <<"undefined">>

\* String(n) of an optional number
NumStr(o) == IF IsSome(o) THEN <<ToString(Val(o))>> ELSE <<"undefined">>

\* chalk: the text between colour escapes
Chalk(s) == <<ESC>> \o s \o <<ESC>>

\* strip-ansi: the text without its colour escapes
strip(s) == SelectSeq(s, LAMBDA t : t # ESC)

HasEscape(s) == \E i \in DOMAIN s : s[i] = ESC

\* String.prototype.split(sep): the pieces between the separator tokens
RECURSIVE Split(_, _)
Split(s, sep) ==
    IF \A i \in DOMAIN s : s[i] # sep THEN <<s>>
    ELSE LET k == CHOOSE i \in DOMAIN s :
                      s[i] = sep /\ \A j \in 1..(i - 1) : s[j] # sep
         IN <<SubSeq(s, 1, k - 1)>> \o Split(SubSeq(s, k + 1, Len(s)), sep)

\* Array.prototype.join(sep)
RECURSIVE Join(_, _)
Join(parts, sep) ==
    IF parts = <<>> THEN <<>>
    ELSE IF Len(parts) = 1 THEN parts[1]
    ELSE parts[1] \o <<sep>> \o Join(Tail(parts), sep)

\* Array.prototype.map
Map(s, F(_)) == [i \in DOMAIN s |-> F(s[i])]

\* String.prototype.trim: white space is the token " "
RECURSIVE TrimLeft(_)
TrimLeft(s) == IF s # <<>> /\ Head(s) = " " THEN TrimLeft(Tail(s)) ELSE s

RECURSIVE TrimRight(_)
TrimRight(s) ==
    IF s # <<>> /\ s[Len(s)] = " " THEN TrimRight(SubSeq(s, 1, Len(s) - 1)) ELSE s

Trim(s) == TrimRight(TrimLeft(s))

(***************************************************************************)
(* Locations and code frames                                               *)
(***************************************************************************)
Pos(line, column) == [line |-> line, column |-> column]
Loc(start, end) == [start |-> start, end |-> end]

tsLocationToBabelLocation(tsLoc) ==
    Loc(Pos(Some(tsLoc.start.line + 1), Some(tsLoc.start.character + 1)),
        Pos(Some(tsLoc.end.line + 1), Some(tsLoc.end.character + 1)))

\* the conversion with negative coordinates clamped to the first line and column
lspRange2Location_clamped(range) ==
    LET Up(n) == IF n < 0 THEN 1 ELSE n + 1
    IN Loc(Pos(Some(Up(range.start.line)), Some(Up(range.start.character))),
           Pos(Some(Up(range.end.line)), Some(Up(range.end.character))))

lspRange2Location(range) ==
    Loc(Pos(Some(range.start.line + 1), Some(range.start.character + 1)),
        Pos(Some(range.end.line + 1), Some(range.end.character + 1)))

\* @babel/code-frame codeFrameColumns: a two-line excerpt, the marked line and the
\* marker under it, each between colour escapes when colour is on
codeFrameColumns(source, location, colour) ==
    LET mark == <<">", "line">> \o NumStr(location.start.line) \o source
        caret == <<"^">>
    IN IF colour THEN Chalk(mark) \o <<LF>> \o Chalk(caret)
       ELSE mark \o <<LF>> \o caret

\* createFrame: colour forced, every line indented by two spaces
createFrame(source, location) ==
    Join(Map(Split(codeFrameColumns(source, location, TRUE), LF),
             LAMBDA line : <<"  ">> \o line),
         EOL)

\* codeFrame && strip(codeFrame)
StripedOf(codeFrame) ==
    IF IsSome(codeFrame) /\ Val(codeFrame) # <<>> THEN Some(strip(Val(codeFrame)))
    ELSE codeFrame

(***************************************************************************)
(* TypeScript                                                              *)
(***************************************************************************)
\* ts.SourceFile.getLineAndCharacterOfPosition: 0-based line and character of
\* an offset, from the offsets at which the file's lines start
getLineAndCharacterOfPosition(file, position) ==
    LET n == CHOOSE i \in DOMAIN file.lineStarts :
                 /\ file.lineStarts[i] <= position
                 /\ \A j \in DOMAIN file.lineStarts :
                        file.lineStarts[j] <= position => j <= i
    IN [line |-> n - 1, character |-> position - file.lineStarts[n]]

\* ts.flattenDiagnosticMessageText: the chain's texts joined by the new line
flattenDiagnosticMessageText(messageText, newLine) == Join(messageText, newLine)

\* the location of normalizeTsDiagnostic: present only with a file, a start and
\* a length
TsLoc(d) ==
    IF IsSome(d.file) /\ IsSome(d.start) /\ IsSome(d.length)
    THEN Some(tsLocationToBabelLocation(
             [start |-> getLineAndCharacterOfPosition(Val(d.file), Val(d.start)),
              end |-> getLineAndCharacterOfPosition(Val(d.file),
                                                     Val(d.start) + Val(d.length))]))
    ELSE None

normalizeTsDiagnostic(d) ==
    LET loc == TsLoc(d)
        codeFrame == IF IsSome(loc)
                     THEN Some(createFrame(Val(d.file).text, Val(loc))) ELSE None
    IN Diag(Some(flattenDiagnosticMessageText(d.messageText, EOL)), Some(<<>>), None,
            IF IsSome(d.file) THEN Some(Val(d.file).fileName) ELSE None,
            "TypeScript", codeFrame, StripedOf(codeFrame), loc, Some(d.category))

normalizeVueTscDiagnostic(d) ==
    [normalizeTsDiagnostic(d) EXCEPT !.checker = "vue-tsc"]

(***************************************************************************)
(* LSP                                                                     *)
(***************************************************************************)
\* the switch with no initial level: a severity it does not know is passed on
LspLevel_noDefault(severity) ==
    IF severity = Some(1) THEN Error
    ELSE IF severity = Some(2) THEN Warning
    ELSE IF severity = Some(3) THEN Message
    ELSE IF severity = Some(4) THEN Suggestion
    ELSE IF IsSome(severity) THEN Val(severity) ELSE Error

\* the switch on diagnostic.severity, Error when no case matches
LspLevel(severity) ==
    IF severity = Some(1) THEN Error
    ELSE IF severity = Some(2) THEN Warning
    ELSE IF severity = Some(3) THEN Message
    ELSE IF severity = Some(4) THEN Suggestion
    ELSE Error

\* colour: whether @babel/code-frame finds the terminal to support colour
normalizeLspDiagnostic(diagnostic, absFilePath, fileText, colour) ==
    LET loc == lspRange2Location(diagnostic.range)
        codeFrame == Some(codeFrameColumns(fileText, loc, colour))
    IN Diag(Some(Trim(diagnostic.message)), Some(<<>>), None, Some(absFilePath),
            "VLS", codeFrame, StripedOf(codeFrame), Some(loc),
            Some(LspLevel(diagnostic.severity)))

\* vscode-uri URI.parse(uri).fsPath: the uri without its scheme
uriToAbsPath(documentUri) == Tail(documentUri)

\* the diagnostics of a publishDiagnostics notification, once the file is read
normalizePublishDiagnosticParams(publishDiagnostics, fileText, colour) ==
    Map(publishDiagnostics.diagnostics,
        LAMBDA d : normalizeLspDiagnostic(d, uriToAbsPath(publishDiagnostics.uri),
                                          fileText, colour))

(***************************************************************************)
(* ESLint                                                                  *)
(***************************************************************************)
\* the switch on d.severity: Error unless the severity is 1
EslintLevel(severity) == IF severity = 1 THEN Warning ELSE Error

\* one message of a lint result: null for severity 0
EslintRecord(diagnostic, d) ==
    IF d.severity = 0 THEN None
    ELSE LET endLine == IF IsSome(d.endLine) /\ Val(d.endLine) # 0
                        THEN d.endLine ELSE Some(0)
             loc == Loc(Pos(d.line, d.column), Pos(endLine, d.endColumn))
             codeFrame == Some(createFrame(
                              IF IsSome(diagnostic.source) THEN Val(diagnostic.source)
                              ELSE <<>>, loc))
         IN Some(Diag(Some(d.message \o <<" (">> \o
                           (IF IsSome(d.ruleId) THEN Val(d.ruleId) ELSE <<"null">>)
                           \o <<")">>),
                      Some(<<>>), None, Some(diagnostic.filePath), "ESLint",
                      codeFrame, StripedOf(codeFrame), Some(loc),
                      Some(EslintLevel(d.severity))))

\* .filter(isNormalizedDiagnostic): the records that are not null
RECURSIVE Compact(_)
Compact(s) ==
    IF s = <<>> THEN <<>>
    ELSE (IF IsSome(Head(s)) THEN <<Val(Head(s))>> ELSE <<>>) \o Compact(Tail(s))

\* the normalizer keeping a record for every message, severity 0 as an Error
normalizeEslintDiagnostic_keepOff(diagnostic) ==
    Compact(Map(diagnostic.messages,
                LAMBDA d : EslintRecord(diagnostic,
                                        [d EXCEPT !.severity = IF @ = 0 THEN 2 ELSE @])))

normalizeEslintDiagnostic(diagnostic) ==
    Compact(Map(diagnostic.messages, LAMBDA d : EslintRecord(diagnostic, d)))

(***************************************************************************)
(* Terminal projection                                                     *)
(***************************************************************************)
\* labelMap[level]: undefined for a level that is none of the four
LevelLabel(lvl, nameInLabel) ==
    IF lvl = Error THEN Chalk(<<" ERROR">> \o nameInLabel \o <<" ">>)
    ELSE IF lvl = Warning THEN Chalk(<<" WARNING">> \o nameInLabel \o <<" ">>)
    ELSE IF lvl = Suggestion THEN Chalk(<<" SUGGESTION">> \o nameInLabel \o <<" ">>)
    ELSE IF lvl = Message THEN Chalk(<<" MESSAGE">> \o nameInLabel \o <<" ">>)
    ELSE <<"undefined">>

\* the line:column of the location, the empty string without a location
Position(d) ==
    IF IsSome(d.loc)
    THEN Chalk(NumStr(Val(d.loc).start.line)) \o <<":">>
         \o Chalk(NumStr(Val(d.loc).start.column))
    ELSE <<>>

FileLabel == Chalk(<<" FILE ">>) \o <<" ">>

\* the four parts before .filter(Boolean): three concatenations, which are
\* strings whatever their operands, and the conclusion as it is
TerminalParts(d, name) ==
    LET nameInLabel == IF IsSome(name) THEN <<"(">> \o Val(name) \o <<")">> ELSE <<>>
        levelLabel == LevelLabel(IF IsSome(d.level) THEN Val(d.level) ELSE Error,
                                 nameInLabel)
    IN <<Some(levelLabel \o <<" ">> \o Str(d.message)),
         Some(FileLabel \o Str(d.id) \o <<":">> \o Position(d) \o <<EOL>>),
         Some(Str(d.codeFrame) \o <<EOL>>),
         d.conclusion>>

\* Boolean(part): a string that is not empty
Truthy(part) == IsSome(part) /\ Val(part) # <<>>

diagnosticToTerminalLog(d, name) ==
    Join(Map(SelectSeq(TerminalParts(d, name), Truthy), Val), EOL)

(***************************************************************************)
(* Runtime projection                                                      *)
(***************************************************************************)
\* the stack as one string: a string as it is, an array joined, '' otherwise
RuntimeStack(stack) ==
    IF ~IsSome(stack) THEN <<>>
    ELSE IF Val(stack).isArray THEN Join(Val(stack).v, EOL)
    ELSE Val(stack).v

RuntimeLoc(d) ==
    IF IsSome(d.loc)
    THEN Some([file |-> d.id,
               line |-> Val(d.loc).start.line,
               column |-> IF IsSome(Val(d.loc).start.column)
                          THEN Val(d.loc).start.column ELSE Some(0)])
    ELSE None

\* the payload carrying the decorated frame
RuntimePayload_decorated(d) ==
    [message |-> IF IsSome(d.message) THEN Val(d.message) ELSE <<>>,
     stack |-> RuntimeStack(d.stack),
     id |-> d.id,
     frame |-> d.codeFrame,
     checkerId |-> d.checker,
     level |-> d.level,
     loc |-> RuntimeLoc(d)]

\* the callback of diagnosticsArray.map
RuntimePayload(d) ==
    [message |-> IF IsSome(d.message) THEN Val(d.message) ELSE <<>>,
     stack |-> RuntimeStack(d.stack),
     id |-> d.id,
     frame |-> d.stripedCodeFrame,
     checkerId |-> d.checker,
     level |-> d.level,
     loc |-> RuntimeLoc(d)]

\* the projection of the diagnostics that have a location only
diagnosticToRuntimeErrorArray_locOnly(ds) ==
    Map(SelectSeq(ds, LAMBDA d : IsSome(d.loc)), RuntimePayload)

\* Array.isArray(diagnostics): results
diagnosticToRuntimeErrorArray(ds) == Map(ds, RuntimePayload)

\* a single diagnostic: results[0] of the one-element array
diagnosticToRuntimeErrorSingle(d) == Map(<<d>>, RuntimePayload)[1]

(***************************************************************************)
(* Cross-thread console log                                                *)
(***************************************************************************)
ACTION_TYPES_console == "console"

\* isMainThread of worker_threads: thread 0 is the main thread
isMainThread(t) == t = 0

\* the test without the VITEST exception
WritesDirectly_mainOnly(t, vitest) == isMainThread(t)

\* isMainThread || (threadId === 1 && process.env.VITEST)
WritesDirectly(t, vitest) == isMainThread(t) \/ (t = 1 /\ vitest)

(***************************************************************************)
(* Upstream inputs                                                         *)
(***************************************************************************)
\* a ts.SourceFile of three lines, starting at offsets 0, 2 and 4
File == [fileName |-> <<"a.ts">>, text |-> <<"source">>, lineStarts |-> <<0, 2, 4>>]

OptionOf(S) == {None} \cup {Some(x) : x \in S}

\* ts.DiagnosticCategory has the ordinals 0..3; 4 is a value outside it
TsCategories == 0..4

\* start and length with the end of the range inside the file
TsSpans ==
    {sp \in [start : OptionOf(0..MaxPos), length : OptionOf(0..MaxPos)] :
        IsSome(sp.start) /\ IsSome(sp.length) => Val(sp.start) + Val(sp.length) <= MaxPos}

TsDiagnostics ==
    {[file |-> f, start |-> sp.start, length |-> sp.length, category |-> c,
      messageText |-> <<<<"Type error">>, <<"cause">>>>] :
        f \in OptionOf({File}), sp \in TsSpans, c \in TsCategories}

\* lsp DiagnosticSeverity is 1..4 or absent; 5 is a value outside it
LspSeverities == OptionOf(1..5)

LspPositions == [line : 0..MaxCoord, character : 0..MaxCoord]

PosLeq(a, b) == a.line < b.line \/ (a.line = b.line /\ a.character <= b.character)

LspRanges == {r \in [start : LspPositions, end : LspPositions] : PosLeq(r.start, r.end)}

LspDiagnostics ==
    [severity : LspSeverities, range : LspRanges, message : {<<" ", "msg", " ">>}]

LspDiagnosticsOneRange ==
    {d \in LspDiagnostics : d.range = [start |-> [line |-> 0, character |-> 0],
                                        end |-> [line |-> 0, character |-> 1]]}

\* eslint Linter.Severity is 0..2; 3 is a value outside it
EslintSeverities == 0..3

\* line, column, endLine, endColumn of a lint message: a range, a message with
\* no end, and a message with no position at all (a file-level warning)
EslintRanges ==
    {[line |-> Some(1), column |-> Some(1), endLine |-> None, endColumn |-> None],
     [line |-> Some(1), column |-> Some(2), endLine |-> Some(1), endColumn |-> Some(3)],
     [line |-> Some(2), column |-> Some(1), endLine |-> Some(3), endColumn |-> Some(1)],
     [line |-> None, column |-> None, endLine |-> None, endColumn |-> None]}

EslintMessages ==
    {[severity |-> sev, message |-> <<"msg">>,
      ruleId |-> IF IsSome(r.line) THEN Some(<<"no-undef">>) ELSE None,
      line |-> r.line, column |-> r.column,
      endLine |-> r.endLine, endColumn |-> r.endColumn] :
        sev \in EslintSeverities, r \in EslintRanges}

RawInputs ==
    {[kind |-> "ts", d |-> d] : d \in TsDiagnostics}
    \cup {[kind |-> "lsp", diagnostic |-> d, absFilePath |-> <<"/a.vue">>,
           fileText |-> <<"source">>, colour |-> c] :
              d \in LspDiagnostics, c \in BOOLEAN}
    \cup {[kind |-> "publish",
           params |-> [uri |-> <<"file://", "/a.vue">>, diagnostics |-> ds],
           readable |-> r, fileText |-> <<"source">>, colour |-> TRUE] :
              ds \in SeqUpTo(LspDiagnosticsOneRange, MaxDiags), r \in BOOLEAN}
    \cup {[kind |-> "eslint",
           result |-> [filePath |-> <<"/a.js">>, source |-> src, messages |-> ms]] :
              ms \in SeqUpTo(EslintMessages, MaxDiags),
              src \in {Some(<<"source">>)}}

\* the allowed-level arrays: one for every set of levels
LevelArrays == {SelectSeq(defaultLogLevel, LAMBDA l : l \in S) : S \in SUBSET Levels}

\* canonical diagnostics with and without a level, told apart by their id
FilterDiags ==
    {Diag(Some(<<"msg">>), Some(<<>>), None, Some(id), "TypeScript", None, None, None, l) :
        id \in {<<"a.ts">>, <<"b.ts">>}, l \in OptionOf(Levels)}

LocCoords == (0 - MaxCoord)..MaxCoord

LocInputs ==
    [start : [line : LocCoords, character : LocCoords],
     end : [line : LocCoords, character : LocCoords]]

Threads == 0..NWorkers
Texts == {"a", "b"}

NoOutput == [op |-> "none"]

(***************************************************************************)
(* State machines                                                          *)
(***************************************************************************)
pipeVars == <<pc, raw, diagnostics, level, output>>
logVars == <<isVitest, calls, port, posted, console>>

LogIdle ==
    /\ isVitest = FALSE
    /\ calls = [t \in Threads |-> <<>>]
    /\ port = [t \in Threads |-> <<>>]
    /\ posted = [t \in Threads |-> <<>>]
    /\ console = <<>>

\* the pipeline starts with one upstream input
Init ==
    /\ pc = "raw"
    /\ raw \in RawInputs
    /\ diagnostics = <<>>
    /\ level = None
    /\ output = NoOutput
    /\ LogIdle

Normalized(ds, op) ==
    /\ diagnostics' = ds
    /\ pc' = "normalized"
    /\ output' = [op |-> op]
    /\ UNCHANGED <<raw, level>>
    /\ UNCHANGED logVars

NormalizeTs ==
    /\ pc = "raw" /\ raw.kind = "ts"
    /\ Normalized(<<normalizeTsDiagnostic(raw.d)>>, "normalizeTsDiagnostic")

NormalizeVueTsc ==
    /\ pc = "raw" /\ raw.kind = "ts"
    /\ Normalized(<<normalizeVueTscDiagnostic(raw.d)>>, "normalizeVueTscDiagnostic")

NormalizeLsp ==
    /\ pc = "raw" /\ raw.kind = "lsp"
    /\ Normalized(<<normalizeLspDiagnostic(raw.diagnostic, raw.absFilePath,
                                           raw.fileText, raw.colour)>>,
                  "normalizeLspDiagnostic")

\* readFile resolves: every diagnostic of the notification is normalized
NormalizePublish ==
    /\ pc = "raw" /\ raw.kind = "publish" /\ raw.readable
    /\ Normalized(normalizePublishDiagnosticParams(raw.params, raw.fileText, raw.colour),
                  "normalizePublishDiagnosticParams")

\* readFile rejects: the rejection reaches the caller, nothing is returned
NormalizePublishRejects ==
    /\ pc = "raw" /\ raw.kind = "publish" /\ ~raw.readable
    /\ pc' = "rejected"
    /\ UNCHANGED <<raw, diagnostics, level, output>>
    /\ UNCHANGED logVars

NormalizeEslint ==
    /\ pc = "raw" /\ raw.kind = "eslint"
    /\ Normalized(normalizeEslintDiagnostic(raw.result), "normalizeEslintDiagnostic")

Returned(out) ==
    /\ output' = out
    /\ pc' = "done"
    /\ UNCHANGED <<raw, diagnostics, level>>
    /\ UNCHANGED logVars

RuntimeArray ==
    /\ pc = "normalized"
    /\ Returned([op |-> "runtimeArray", val |-> diagnosticToRuntimeErrorArray(diagnostics)])

RuntimeSingle(i) ==
    /\ pc = "normalized"
    /\ Returned([op |-> "runtimeSingle", arg |-> i,
                 val |-> diagnosticToRuntimeErrorSingle(diagnostics[i])])

TerminalLog(i, name) ==
    /\ pc = "normalized"
    /\ Returned([op |-> "terminalLog", arg |-> i, name |-> name,
                 val |-> diagnosticToTerminalLog(diagnostics[i], name)])

Next ==
    \/ NormalizeTs
    \/ NormalizeVueTsc
    \/ NormalizeLsp
    \/ NormalizePublish
    \/ NormalizePublishRejects
    \/ NormalizeEslint
    \/ RuntimeArray
    \/ \E i \in DOMAIN diagnostics : RuntimeSingle(i)
    \/ \E i \in DOMAIN diagnostics :
          \E name \in {None, Some(<<diagnostics[i].checker>>)} : TerminalLog(i, name)

Spec == Init /\ [][Next]_vars

(***************************************************************************)
(* The filter on canonical diagnostics with and without a level            *)
(***************************************************************************)
\* level: DiagnosticLevel[] = defaultLogLevel
LevelArg == IF IsSome(level) THEN Val(level) ELSE defaultLogLevel

InitFilter ==
    /\ pc = "normalized"
    /\ raw = None
    /\ diagnostics \in SeqUpTo(FilterDiags, MaxDiags)
    /\ level \in OptionOf(LevelArrays)
    /\ output = NoOutput
    /\ LogIdle

FilterArray ==
    /\ pc = "normalized"
    /\ Returned([op |-> "filterArray", val |-> filterLogLevelArray(diagnostics, LevelArg)])

FilterSingle(i) ==
    /\ pc = "normalized"
    /\ Returned([op |-> "filterSingle", arg |-> i,
                 val |-> filterLogLevelSingle(diagnostics[i], LevelArg)])

NextFilter ==
    \/ FilterArray
    \/ \E i \in DOMAIN diagnostics : FilterSingle(i)

SpecFilter == InitFilter /\ [][NextFilter]_vars

(***************************************************************************)
(* The two location conversions on arbitrary coordinates                   *)
(***************************************************************************)
InitLoc ==
    /\ pc = "raw"
    /\ raw \in LocInputs
    /\ diagnostics = <<>>
    /\ level = None
    /\ output = NoOutput
    /\ LogIdle

TsLocation ==
    /\ pc = "raw"
    /\ Returned([op |-> "tsLocationToBabelLocation", val |-> tsLocationToBabelLocation(raw)])

LspRange ==
    /\ pc = "raw"
    /\ Returned([op |-> "lspRange2Location", val |-> lspRange2Location(raw)])

NextLoc ==
    \/ TsLocation
    \/ LspRange

SpecLoc == InitLoc /\ [][NextLoc]_vars

(***************************************************************************)
(* consoleLog on the main thread and on the workers                        *)
(***************************************************************************)
InitLog ==
    /\ pc = "log"
    /\ raw = None
    /\ diagnostics = <<>>
    /\ level = None
    /\ output = NoOutput
    /\ isVitest \in BOOLEAN
    /\ calls = [t \in Threads |-> <<>>]
    /\ port = [t \in Threads |-> <<>>]
    /\ posted = [t \in Threads |-> <<>>]
    /\ console = <<>>

RECURSIVE SumLen(_, _)
SumLen(f, S) ==
    IF S = {} THEN 0
    ELSE LET t == CHOOSE x \in S : TRUE IN Len(f[t]) + SumLen(f, S \ {t})

\* thread t calls consoleLog(value)
ConsoleLog(t, value) ==
    /\ SumLen(calls, Threads) < MaxCalls
    /\ calls' = [calls EXCEPT ![t] = Append(@, value)]
    /\ IF WritesDirectly(t, isVitest)
       THEN /\ console' = Append(console, [writer |-> t, from |-> t, text |-> value])
            /\ UNCHANGED <<port, posted>>
       ELSE LET msg == [type |-> ACTION_TYPES_console, payload |-> value]
            IN /\ port' = [port EXCEPT ![t] = Append(@, msg)]
               /\ posted' = [posted EXCEPT ![t] = Append(@, msg)]
               /\ UNCHANGED console
    /\ UNCHANGED isVitest
    /\ UNCHANGED pipeVars

\* the coordinating thread takes the oldest message of worker t's port and
\* writes its payload
ReceiveConsole(t) ==
    /\ port[t] # <<>>
    /\ Head(port[t]).type = ACTION_TYPES_console
    /\ console' = Append(console, [writer |-> 0, from |-> t, text |-> Head(port[t]).payload])
    /\ port' = [port EXCEPT ![t] = Tail(@)]
    /\ UNCHANGED <<isVitest, calls, posted>>
    /\ UNCHANGED pipeVars

NextLog ==
    \/ \E t \in Threads : \E value \in Texts : ConsoleLog(t, value)
    \/ \E t \in Threads : ReceiveConsole(t)

SpecLog == InitLog /\ [][NextLog]_vars

(***************************************************************************)
(* Properties                                                              *)
(***************************************************************************)
\* the j-th smallest element of a set of indices
Nth(K, j) == CHOOSE i \in K : Cardinality({k \in K : k <= i}) = j

AllowedSet == {LevelArg[k] : k \in DOMAIN LevelArg}

KeptIndices ==
    {i \in DOMAIN diagnostics :
        IsSome(diagnostics[i].level) /\ Val(diagnostics[i].level) \in AllowedSet}

\* C1: filterLogLevel on a sequence returns exactly the records whose level is
\* defined and a member of the allowed set, in their original order; a record
\* with no level is never returned, whatever the allowed set.
C1_FilterKeepsAllowedInOrder ==
    (pc = "done" /\ output.op = "filterArray") =>
        /\ Len(output.val) = Cardinality(KeptIndices)
        /\ \A j \in DOMAIN output.val :
              /\ output.val[j] = diagnostics[Nth(KeptIndices, j)]
              /\ IsSome(output.val[j].level)

C1_Witness ==
    /\ pc = "done" /\ output.op = "filterArray"
    /\ level = Some(defaultLogLevel)
    /\ Len(diagnostics) = 2
    /\ diagnostics[1].level = None
    /\ diagnostics[2].level = Some(Warning)
    /\ output.val = <<diagnostics[2]>>

\* C2: filterLogLevel on a single record d returns d exactly when
\* filterLogLevel on the one-element sequence [d] returns [d], and null
\* otherwise, for each of the four levels.
C2_SingleAgreesWithSequence ==
    (pc = "done" /\ output.op = "filterSingle") =>
        LET d == diagnostics[output.arg]
        IN /\ (output.val = Some(d)) <=> (filterLogLevelArray(<<d>>, LevelArg) = <<d>>)
           /\ (output.val # Some(d)) => (output.val = None)

\* C3: diagnosticToTerminalLog joins by line separators the label and message,
\* the file part, the code frame and the conclusion, leaving out the code
\* frame part when the diagnostic has no codeFrame and the conclusion part when
\* the conclusion is empty or absent, and printing no position without a loc.
C3_AbsentPartsOmitted ==
    (pc = "done" /\ output.op = "terminalLog") =>
        LET d == diagnostics[output.arg]
            ps == TerminalParts(d, output.name)
            part3 == IF Truthy(d.codeFrame) THEN <<Val(ps[3])>> ELSE <<>>
            part4 == IF Truthy(d.conclusion) THEN <<Val(ps[4])>> ELSE <<>>
        IN /\ output.val = Join(<<Val(ps[1]), Val(ps[2])>> \o part3 \o part4, EOL)
           /\ ~IsSome(d.loc) =>
                 Val(ps[2]) = FileLabel \o Str(d.id) \o <<":">> \o <<EOL>>

\* the payload p is the projection of the diagnostic d
IsProjection(p, d) ==
    /\ p.id = d.id
    /\ p.checkerId = d.checker
    /\ p.level = d.level
    /\ IF IsSome(d.loc)
       THEN p.loc = Some([file |-> d.id,
                          line |-> Val(d.loc).start.line,
                          column |-> IF Val(d.loc).start.column = None THEN Some(0)
                                     ELSE Val(d.loc).start.column])
       ELSE p.loc = None

\* C5: diagnosticToRuntimeError returns one payload for a single diagnostic and
\* a sequence of N payloads for a sequence of N diagnostics, the i-th payload
\* being the projection of the i-th diagnostic.
C5_RuntimeKeepsCardinalityAndOrder ==
    /\ (pc = "done" /\ output.op = "runtimeArray") =>
          /\ Len(output.val) = Len(diagnostics)
          /\ \A i \in DOMAIN diagnostics : IsProjection(output.val[i], diagnostics[i])
    /\ (pc = "done" /\ output.op = "runtimeSingle") =>
          /\ DOMAIN output.val =
                {"message", "stack", "id", "frame", "checkerId", "level", "loc"}
          /\ IsProjection(output.val, diagnostics[output.arg])

C5_Witness ==
    /\ pc = "done" /\ output.op = "runtimeArray"
    /\ Len(diagnostics) = 2 /\ Len(output.val) = 2
    /\ diagnostics[1].level # diagnostics[2].level
    /\ Val(diagnostics[1].loc).start.column = None
    /\ Val(output.val[1].loc).column = Some(0)
    /\ Val(output.val[2].loc).column = Some(2)

\* the payloads returned, each with the diagnostic it was made from
PayloadPairs ==
    IF output.op = "runtimeArray"
    THEN {<<output.val[i], diagnostics[i]>> : i \in DOMAIN output.val}
    ELSE {<<output.val, diagnostics[output.arg]>>}

\* C6: the frame of a runtime payload made from a normalized diagnostic is the
\* diagnostic's code frame with the colour escapes stripped (absent when the
\* diagnostic has no frame), never the decorated one; no field of the payload
\* carries a colour escape.
C6_PayloadFrameIsStripped ==
    (pc = "done" /\ output.op \in {"runtimeArray", "runtimeSingle"}) =>
        \A pd \in PayloadPairs :
            LET p == pd[1]
                d == pd[2]
            IN /\ p.frame = IF IsSome(d.codeFrame) THEN Some(strip(Val(d.codeFrame)))
                            ELSE None
               /\ IsSome(p.frame) => ~HasEscape(Val(p.frame))
               /\ ~HasEscape(p.message)
               /\ ~HasEscape(p.stack)

C6_Witness ==
    /\ pc = "done" /\ output.op = "runtimeSingle"
    /\ raw.kind = "ts"
    /\ IsSome(diagnostics[output.arg].codeFrame)
    /\ HasEscape(Val(diagnostics[output.arg].codeFrame))
    /\ IsSome(output.val.frame)
    /\ Val(output.val.frame) # <<>>

\* the messages of the lint result that are not switched off
EslintKept ==
    {i \in DOMAIN raw.result.messages : raw.result.messages[i].severity # 0}

C8_LocationAddsOne ==
    (pc = "done" /\ output.op \in {"tsLocationToBabelLocation", "lspRange2Location"}) =>
        /\ Val(output.val.start.line) = raw.start.line + 1
        /\ Val(output.val.start.column) = raw.start.character + 1
        /\ Val(output.val.end.line) = raw.end.line + 1
        /\ Val(output.val.end.column) = raw.end.character + 1

C8_Witness ==
    /\ pc = "done" /\ output.op = "lspRange2Location"
    /\ raw.start.line = 0 - 1 /\ raw.start.character = 0
    /\ raw.end.line = 1 /\ raw.end.character = 0 - 1
    /\ output.val = Loc(Pos(Some(0), Some(1)), Pos(Some(2), Some(0)))

\* the texts thread t wrote to the console itself
DirectWrites(t) ==
    Map(SelectSeq(console, LAMBDA e : e.writer = t /\ e.from = t), LAMBDA e : e.text)

\* the texts of worker t the coordinating thread wrote
Received(t) ==
    Map(SelectSeq(console, LAMBDA e : e.writer = 0 /\ e.from = t), LAMBDA e : e.text)

\* thread t wrote every text itself and posted nothing
WroteItself(t) ==
    /\ posted[t] = <<>>
    /\ DirectWrites(t) = calls[t]

\* thread t wrote nothing itself and posted one console message per call, in
\* call order, each received at most once and in that order
PostedEveryCall(t) ==
    /\ DirectWrites(t) = <<>>
    /\ posted[t] = Map(calls[t],
                       LAMBDA v : [type |-> ACTION_TYPES_console, payload |-> v])
    /\ Received(t) \o Map(port[t], LAMBDA m : m.payload) = calls[t]

\* C4 as stated: a worker never writes to the console itself and posts exactly
\* one message {type: console, payload: text} per consoleLog call, in call
\* order; the main thread writes directly and posts nothing.
C4_WorkersAlwaysPost ==
    \A t \in Threads : IF isMainThread(t) THEN WroteItself(t) ELSE PostedEveryCall(t)

\* C4 amended: the same, except that thread 1 of a run with VITEST set counts
\* as the writing thread: it writes directly and posts nothing.
C4_WorkersPostUnlessVitestThread1 ==
    \A t \in Threads :
        IF isMainThread(t) \/ (t = 1 /\ isVitest) THEN WroteItself(t)
        ELSE PostedEveryCall(t)

C4_Witness ==
    /\ isVitest
    /\ Len(calls[1]) = 1 /\ DirectWrites(1) = calls[1]
    /\ Len(calls[2]) = 2 /\ calls[2][1] # calls[2][2]
    /\ Len(Received(2)) = 1 /\ Len(port[2]) = 1

\* C9 as stated: every diagnostic a normalizer returns has one of the four
\* levels, whatever the upstream severity or category; a value outside the
\* known mapping gives Error in the type-checker and language-server paths.
C9_LevelAlwaysOneOfFour ==
    (pc \in {"normalized", "done"}) =>
        \A i \in DOMAIN diagnostics :
            /\ IsSome(diagnostics[i].level)
            /\ Val(diagnostics[i].level) \in Levels
            /\ (raw.kind = "ts" /\ raw.d.category \notin 0..3) =>
                  diagnostics[i].level = Some(Error)

\* C9 amended: the language-server and linter paths always give one of the
\* four levels (Error for a severity outside the mapping, the linter dropping
\* exactly severity 0); the type-checker paths copy the category, so their
\* level is one of the four exactly when the category is one of 0..3.
C9_LevelOneOfFourExceptTsCast ==
    (pc \in {"normalized", "done"}) =>
        /\ raw.kind \in {"lsp", "publish", "eslint"} =>
              \A i \in DOMAIN diagnostics :
                  IsSome(diagnostics[i].level) /\ Val(diagnostics[i].level) \in Levels
        /\ (raw.kind = "lsp" /\ raw.diagnostic.severity \notin {Some(n) : n \in 1..4}) =>
              diagnostics[1].level = Some(Error)
        /\ raw.kind = "publish" =>
              \A i \in DOMAIN diagnostics :
                  raw.params.diagnostics[i].severity \notin {Some(n) : n \in 1..4} =>
                      diagnostics[i].level = Some(Error)
        /\ raw.kind = "eslint" =>
              /\ Len(diagnostics) = Cardinality(EslintKept)
              /\ \A j \in DOMAIN diagnostics :
                    raw.result.messages[Nth(EslintKept, j)].severity \notin {1, 2} =>
                        diagnostics[j].level = Some(Error)
        /\ raw.kind = "ts" =>
              /\ diagnostics[1].level = Some(raw.d.category)
              /\ (Val(diagnostics[1].level) \in Levels) <=> (raw.d.category \in 0..3)

C9_Witness ==
    /\ pc = "normalized" /\ raw.kind = "ts"
    /\ raw.d.category = 4
    /\ diagnostics[1].checker = "vue-tsc"
    /\ diagnostics[1].level = Some(4)

\* the upstream coordinates are valid: every lint message has a line and a
\* column (the type-checker and language-server inputs always are)
UpstreamValid ==
    raw.kind = "eslint" =>
        \A i \in DOMAIN raw.result.messages :
            IsSome(raw.result.messages[i].line) /\ IsSome(raw.result.messages[i].column)

\* the coordinate is a number and 1-based
OneBased(c) == IsSome(c) /\ Val(c) >= 1

\* C10: every Location a normalizer attaches has start <= end in
\* lexicographic order and four 1-based coordinates, whenever the upstream
\* coordinates are valid, also for a lint message with no endLine.
C10_LocationOrdered ==
    (pc \in {"normalized", "done"} /\ UpstreamValid) =>
        \A i \in DOMAIN diagnostics :
            IsSome(diagnostics[i].loc) =>
                LET l == Val(diagnostics[i].loc)
                IN /\ OneBased(l.start.line) /\ OneBased(l.start.column)
                   /\ OneBased(l.end.line) /\ OneBased(l.end.column)
                   /\ \/ Val(l.start.line) < Val(l.end.line)
                      \/ /\ Val(l.start.line) = Val(l.end.line)
                         /\ Val(l.start.column) <= Val(l.end.column)

====
